---- MODULE Spec2Model ----
(***************************************************************************)
(* CalculatorEngine of src/calculator_1.py: the textual rewriting that     *)
(* evaluate() applies to an expression, Python's eval() on the rewritten   *)
(* text, and the engine state (history, memory, last_result).              *)
(*                                                                         *)
(* Strings are sequences of one-character strings.  Python numbers are     *)
(* records [t, n, d, lit]: an int is n/1, a float is the dyadic rational   *)
(* n/d in lowest terms (the floats on which double arithmetic is exact),   *)
(* and a float literal outside that set is kept by its shortest text       *)
(* (t = "float", d = 0, lit = the text).                                   *)
(***************************************************************************)
EXTENDS Integers, Sequences, FiniteSets, TLC

\* Bind(v, LAMBDA x : e) is e with x standing for v
Bind(v, In(_)) == In(v)

\* CalculatorEngine's fields, and op: the last call and what it gave back
VARIABLES history, memory, last_result, op

\* CommandLineCalculator.run: whether the loop is still running, the line it
\* read last, what handling the line printed, and the exception that reached
\* the loop
VARIABLES running, user_input, printed, raised

\* CalculatorGUI: the text of the entry, the result label and the lines of
\* the history panel
VARIABLES display_var, result_var, history_text

\* TaskManager of src/todolist.py: the task list, the content of the storage
\* file, and the time of datetime.now()
VARIABLES tasks, storage_file, now

cliVars == <<running, user_input, printed, raised>>
guiVars == <<display_var, result_var, history_text>>
todoVars == <<tasks, storage_file, now>>

vars == <<history, memory, last_result, op, cliVars, guiVars, todoVars>>

(* ------------------------------ bounds --------------------------------- *)

\* largest magnitude of a number the model follows
MaxAbs == 600
\* largest number of fractional decimal digits of a float the model follows
MaxFracDigits == 2
\* largest magnitude of the memory register
MaxMem == 7
\* longest history
MaxHist == 3
\* longest history when the expressions read m and ans
MaxSymbolHist == 1
\* largest operand of the expressions that mix operators
MaxOperand == 3
\* longest history when the expressions mix operators
MaxGrammarHist == 1
\* longest history of the command-line calculator
MaxCliHist == 1
\* longest history of the graphical calculator
MaxGuiHist == 2
\* longest task list, and the last time at which a task is made or updated
MaxTasks == 2
MaxNow == 2

(* ------------------------------ numbers -------------------------------- *)

Abs(x) == IF x < 0 THEN -x ELSE x

RECURSIVE Gcd(_, _)
Gcd(a, b) == IF b = 0 THEN a ELSE Gcd(b, a % b)

RECURSIVE Pow10(_)
Pow10(k) == IF k = 0 THEN 1 ELSE 10 * Pow10(k - 1)

RECURSIVE Pow2(_)
Pow2(k) == IF k = 0 THEN 1 ELSE 2 * Pow2(k - 1)

\* the denominators of the floats the model follows: 2^0 .. 2^MaxFracDigits
Dens == {Pow2(k) : k \in 0..MaxFracDigits}

\* k with d = 2^k, for d in Dens
Log2(d) == CHOOSE k \in 0..MaxFracDigits : Pow2(k) = d

Int_(n) == [t |-> "int", n |-> n, d |-> 1, lit |-> <<>>]
Float_(n, d) == [t |-> "float", n |-> n, d |-> d, lit |-> <<>>]
\* a float known only by its text
LitFloat(s) == [t |-> "float", n |-> 0, d |-> 0, lit |-> s]
\* the objects of the eval namespace that are not numbers
Object(t) == [t |-> t, n |-> 0, d |-> 1, lit |-> <<>>]
NoVal == Object("none")

IsNum(v) == v.t \in {"int", "float"}
IsExact(v) == IsNum(v) /\ v.d > 0

\* results of an evaluation step: a value, or the Python exception raised;
\* "OutOfModel" marks a computation the bounds of the model do not follow
Ok(v) == [ok |-> TRUE, v |-> v, err |-> "none"]
Raise(e) == [ok |-> FALSE, v |-> NoVal, err |-> e]

\* the number n/d of type t, in lowest terms, if the model follows it
Norm(t, n, d) ==
    IF t = "int"
    THEN IF Abs(n) <= MaxAbs THEN Ok(Int_(n)) ELSE Raise("OutOfModel")
    ELSE Bind(Gcd(Abs(n), d), LAMBDA g :
            IF (d \div g) \in Dens /\ Abs(n \div g) <= MaxAbs * (d \div g)
            THEN Ok(Float_(n \div g, d \div g))
            ELSE Raise("OutOfModel"))

\* Python's type of a binary arithmetic result
Wider(a, b) == IF a.t = "int" /\ b.t = "int" THEN "int" ELSE "float"

PyAdd(a, b) ==
    IF ~(IsNum(a) /\ IsNum(b)) THEN Raise("TypeError")
    ELSE IF ~(IsExact(a) /\ IsExact(b)) THEN Raise("OutOfModel")
    ELSE Norm(Wider(a, b), a.n * b.d + b.n * a.d, a.d * b.d)

PySub(a, b) ==
    IF ~(IsNum(a) /\ IsNum(b)) THEN Raise("TypeError")
    ELSE IF ~(IsExact(a) /\ IsExact(b)) THEN Raise("OutOfModel")
    ELSE Norm(Wider(a, b), a.n * b.d - b.n * a.d, a.d * b.d)

PyMul(a, b) ==
    IF ~(IsNum(a) /\ IsNum(b)) THEN Raise("TypeError")
    ELSE IF ~(IsExact(a) /\ IsExact(b)) THEN Raise("OutOfModel")
    ELSE IF Wider(a, b) = "float" /\ a.n * b.n = 0 /\ (a.n < 0 \/ b.n < 0)
    THEN Raise("OutOfModel")   \* the float -0.0
    ELSE Norm(Wider(a, b), a.n * b.n, a.d * b.d)

\* true division: always a float, ZeroDivisionError on a zero divisor
PyDiv(a, b) ==
    IF ~(IsNum(a) /\ IsNum(b)) THEN Raise("TypeError")
    ELSE IF ~(IsExact(a) /\ IsExact(b)) THEN Raise("OutOfModel")
    ELSE IF b.n = 0 THEN Raise("ZeroDivisionError")
    ELSE IF a.n = 0 /\ b.n < 0 THEN Raise("OutOfModel")   \* the float -0.0
    ELSE LET s == IF b.n < 0 THEN -1 ELSE 1
         IN  Norm("float", s * a.n * b.d, a.d * Abs(b.n))

PyNeg(a) ==
    IF ~IsNum(a) THEN Raise("TypeError")
    ELSE IF ~IsExact(a) THEN Raise("OutOfModel")
    ELSE IF a.t = "float" /\ a.n = 0 THEN Raise("OutOfModel")   \* the float -0.0
    ELSE Ok([a EXCEPT !.n = -a.n])

PyPos(a) == IF ~IsNum(a) THEN Raise("TypeError") ELSE Ok(a)

\* acc * b^e, or MaxAbs * MaxAbs + 1 once the magnitude passes that
RECURSIVE PowUp(_, _, _)
PowUp(b, e, acc) ==
    IF e = 0 THEN acc
    ELSE IF Abs(acc * b) > MaxAbs * MaxAbs THEN MaxAbs * MaxAbs + 1
    ELSE PowUp(b, e - 1, acc * b)

\* b^e for e >= 0, or MaxAbs * MaxAbs + 1 once the magnitude passes that
PowCap(b, e) ==
    IF e = 0 THEN 1
    ELSE IF b \in {0, 1} THEN b
    ELSE IF b = -1 THEN IF e % 2 = 0 THEN 1 ELSE -1
    ELSE PowUp(b, e, 1)

Sign(x) == IF x < 0 THEN -1 ELSE 1

\* the power pn/pd of type t, if its parts stayed under the cap of PowCap
PowResult(t, pn, pd) ==
    IF Abs(pn) > MaxAbs * MaxAbs \/ Abs(pd) > MaxAbs * MaxAbs
    THEN Raise("OutOfModel")
    ELSE Norm(t, pn, pd)

\* a ** b: exact for an integral exponent; int ** negative int is a float;
\* zero to a negative power raises ZeroDivisionError
PyPow(a, b) ==
    IF ~(IsNum(a) /\ IsNum(b)) THEN Raise("TypeError")
    ELSE IF ~(IsExact(a) /\ IsExact(b)) THEN Raise("OutOfModel")
    ELSE IF b.d # 1 THEN Raise("OutOfModel")
    ELSE IF Abs(b.n) > MaxAbs THEN Raise("OutOfModel")
    ELSE IF b.n >= 0
    THEN PowResult(Wider(a, b), PowCap(a.n, b.n), PowCap(a.d, b.n))
    ELSE IF a.n = 0 THEN Raise("ZeroDivisionError")
    ELSE PowResult("float", Sign(PowCap(a.n, -b.n)) * PowCap(a.d, -b.n),
                   Abs(PowCap(a.n, -b.n)))

\* a bool: True is n = 1, False is n = 0
Bool_(b) == [t |-> "bool", n |-> IF b THEN 1 ELSE 0, d |-> 1, lit |-> <<>>]

\* bool is a subclass of int: in arithmetic True is 1 and False is 0
AsNum(v) == IF v.t = "bool" THEN Int_(v.n) ELSE v

\* the remainder of type t from r = |x| mod |y| (in units of 1/den), where
\* neg tells a negative divisor y; a float zero remainder of a negative
\* divisor is -0.0
ModResult(t, r, neg, y, den) ==
    IF r = 0 THEN IF neg /\ t = "float" THEN Raise("OutOfModel")
                  ELSE Norm(t, 0, 1)
    ELSE Norm(t, IF neg THEN r - y ELSE r, den)

\* a % b: the remainder has the sign of the divisor
PyMod(a, b) ==
    IF ~(IsNum(a) /\ IsNum(b)) THEN Raise("TypeError")
    ELSE IF ~(IsExact(a) /\ IsExact(b)) THEN Raise("OutOfModel")
    ELSE IF b.n = 0 THEN Raise("ZeroDivisionError")
    ELSE ModResult(Wider(a, b), (a.n * b.d) % Abs(b.n * a.d), b.n < 0,
                   Abs(b.n * a.d), a.d * b.d)

\* a < b, a > b, a <= b, a >= b, a == b, a != b on numbers: a bool
PyCompare(o, a, b) ==
    IF ~(IsNum(a) /\ IsNum(b)) THEN Raise("OutOfModel")
    ELSE IF ~(IsExact(a) /\ IsExact(b)) THEN Raise("OutOfModel")
    ELSE LET x == a.n * b.d
             y == b.n * a.d
         IN  Ok(Bool_(CASE o = "<" -> x < y
                        [] o = ">" -> x > y
                        [] o = "<=" -> x <= y
                        [] o = ">=" -> x >= y
                        [] o = "==" -> x = y
                        [] o = "!=" -> x # y))

\* numeric equality (Python ==) of two numbers
NumEq(a, b) ==
    /\ IsNum(a) /\ IsNum(b)
    /\ IF IsExact(a) /\ IsExact(b) THEN a.n * b.d = b.n * a.d
       ELSE a.d = b.d /\ a.lit = b.lit

(* ------------------------------ strings -------------------------------- *)

Digits == <<"0", "1", "2", "3", "4", "5", "6", "7", "8", "9">>
IsDigit(c) == c \in {Digits[i] : i \in 1..10}
DigitVal(c) == (CHOOSE i \in 1..10 : Digits[i] = c) - 1

LowerCase == <<"a", "b", "c", "d", "e", "f", "g", "h", "i", "j", "k", "l",
               "m", "n", "o", "p", "q", "r", "s", "t", "u", "v", "w", "x",
               "y", "z">>
UpperCase == <<"A", "B", "C", "D", "E", "F", "G", "H", "I", "J", "K", "L",
               "M", "N", "O", "P", "Q", "R", "S", "T", "U", "V", "W", "X",
               "Y", "Z">>
IsLower(c) == c \in {LowerCase[i] : i \in 1..Len(LowerCase)}
IsUpper(c) == c \in {UpperCase[i] : i \in 1..Len(UpperCase)}
IsAlpha(c) == IsLower(c) \/ IsUpper(c) \/ c = "_"

\* str.lower()
LowerChar(c) ==
    IF IsUpper(c)
    THEN LowerCase[CHOOSE i \in 1..Len(UpperCase) : UpperCase[i] = c]
    ELSE c
Lower(s) == [i \in 1..Len(s) |-> LowerChar(s[i])]

\* s[i..] starts with p
StartsAt(s, i, p) ==
    /\ i + Len(p) - 1 <= Len(s)
    /\ \A k \in 1..Len(p) : s[i + k - 1] = p[k]

\* str.replace(old, new): every non-overlapping occurrence, left to right
RECURSIVE ReplaceFrom(_, _, _, _)
ReplaceFrom(s, i, old, new) ==
    IF i > Len(s) THEN <<>>
    ELSE IF StartsAt(s, i, old)
         THEN new \o ReplaceFrom(s, i + Len(old), old, new)
         ELSE <<s[i]>> \o ReplaceFrom(s, i + 1, old, new)
Replace(s, old, new) == ReplaceFrom(s, 1, old, new)

\* the least j >= i with s[j] = c, or 0
RECURSIVE IndexFrom(_, _, _)
IndexFrom(s, i, c) ==
    IF i > Len(s) THEN 0
    ELSE IF s[i] = c THEN i
    ELSE IndexFrom(s, i + 1, c)

\* re.sub(name + r'\((.*?)\)', repl + r'(\1)', s): at each position, left to
\* right, name( up to the first ) after it is rewritten; the matched text is
\* not scanned again
RECURSIVE ReSubFrom(_, _, _, _)
ReSubFrom(s, i, name, repl) ==
    IF i > Len(s) THEN <<>>
    ELSE LET open == name \o <<"(">>
             close == IF StartsAt(s, i, open)
                      THEN IndexFrom(s, i + Len(open), ")")
                      ELSE 0
         IN  IF close > 0
             THEN repl \o <<"(">> \o SubSeq(s, i + Len(open), close - 1)
                       \o <<")">> \o ReSubFrom(s, close + 1, name, repl)
             ELSE <<s[i]>> \o ReSubFrom(s, i + 1, name, repl)
ReSub(s, name, repl) == ReSubFrom(s, 1, name, repl)

\* the decimal digits of n >= 0
RECURSIVE NatStr(_)
NatStr(n) ==
    IF n < 10 THEN <<Digits[n + 1]>>
    ELSE NatStr(n \div 10) \o <<Digits[(n % 10) + 1]>>

\* n >= 0 in exactly k digits, zero-padded on the left
RECURSIVE PadStr(_, _)
PadStr(n, k) ==
    IF k = 0 THEN <<>>
    ELSE PadStr(n \div 10, k - 1) \o <<Digits[(n % 10) + 1]>>

\* str(v) of a number: an int as its digits; a float as its shortest
\* round-trip text, which for n/2^k is its exact decimal expansion
Str(v) ==
    IF v.t = "bool"
    THEN IF v.n = 1 THEN <<"T", "r", "u", "e">> ELSE <<"F", "a", "l", "s", "e">>
    ELSE IF v.d = 0 THEN v.lit
    ELSE LET sign == IF v.n < 0 THEN <<"-">> ELSE <<>>
             a == Abs(v.n)
         IN  IF v.t = "int" THEN sign \o NatStr(a)
             ELSE IF v.d = 1 THEN sign \o NatStr(a) \o <<".", "0">>
             ELSE LET k == Log2(v.d)
                  IN  sign \o NatStr(a \div v.d) \o <<".">>
                      \o PadStr((a % v.d) * (Pow10(k) \div v.d), k)

\* str(math.pi), str(math.e)
PiStr == <<"3", ".", "1", "4", "1", "5", "9", "2", "6", "5", "3", "5", "8",
           "9", "7", "9", "3">>
EStr == <<"2", ".", "7", "1", "8", "2", "8", "1", "8", "2", "8", "4", "5",
          "9", "0", "4", "5">>

(* --------------------- Python's eval: the tokenizer -------------------- *)

Seq1(str1) == <<str1>>

\* tokens: a number, a name, or an operator / delimiter
NumTok(v) == [k |-> "num", o |-> "", nm |-> <<>>, v |-> v]
NameTok(nm) == [k |-> "name", o |-> "", nm |-> nm, v |-> NoVal]
OpTok(o) == [k |-> "op", o |-> o, nm |-> <<>>, v |-> NoVal]
EndTok == OpTok("end")

\* the first position >= i of s that holds no digit
RECURSIVE DigitsEnd(_, _)
DigitsEnd(s, i) ==
    IF i <= Len(s) /\ IsDigit(s[i]) THEN DigitsEnd(s, i + 1) ELSE i

\* the first position >= i of s that holds no letter or digit
RECURSIVE NameEnd(_, _)
NameEnd(s, i) ==
    IF i <= Len(s) /\ (IsAlpha(s[i]) \/ IsDigit(s[i]))
    THEN NameEnd(s, i + 1) ELSE i

\* the value of a digit string, or MaxAbs * 10 + 1 once it passes MaxAbs * 10
RECURSIVE DigitsVal(_)
DigitsVal(ds) ==
    IF ds = <<>> THEN 0
    ELSE LET r == DigitsVal(SubSeq(ds, 1, Len(ds) - 1))
         IN  IF r > MaxAbs THEN MaxAbs * 10 + 1
             ELSE r * 10 + DigitVal(ds[Len(ds)])

\* the value of a short digit string
RECURSIVE ShortVal(_)
ShortVal(ds) ==
    IF ds = <<>> THEN 0
    ELSE ShortVal(SubSeq(ds, 1, Len(ds) - 1)) * 10 + DigitVal(ds[Len(ds)])

\* ds without its trailing zeros
RECURSIVE StripZeros(_)
StripZeros(ds) ==
    IF ds # <<>> /\ ds[Len(ds)] = "0"
    THEN StripZeros(SubSeq(ds, 1, Len(ds) - 1)) ELSE ds

AllZero(ds) == \A i \in 1..Len(ds) : ds[i] = "0"

\* whether the float literal ip.fp is the text str() gives for its value:
\* no spare zeros, no exponent form, at most 15 significant digits unless
\* it is the text of math.pi or math.e
Canonical(ip, fp) ==
    /\ ip # <<>> /\ fp # <<>>
    /\ (Len(ip) > 1 => ip[1] # "0")
    /\ (Len(fp) > 1 => fp[Len(fp)] # "0")
    /\ Len(ip) <= 15
    /\ (ip = <<"0">> => ~AllZero(SubSeq(fp, 1, IF Len(fp) < 4 THEN Len(fp) ELSE 4)))
    /\ \/ Len(ip) + Len(fp) <= 15
       \/ ip \o <<".">> \o fp \in {PiStr, EStr}

\* the int literal ds: leading zeros are a syntax error unless it is zero
IntLiteral(ds) ==
    IF Len(ds) > 1 /\ ds[1] = "0" /\ ~AllZero(ds) THEN Raise("SyntaxError")
    ELSE Norm("int", DigitsVal(ds), 1)

\* the float literal ip.fp (either part may be empty, not both)
ExactFloat(iv, f) ==
    IF Len(f) <= MaxFracDigits /\ iv <= MaxAbs
    THEN Norm("float", iv * Pow10(Len(f)) + ShortVal(f), Pow10(Len(f)))
    ELSE Raise("OutOfModel")

FloatLiteral(ip, fp) ==
    Bind(ExactFloat(DigitsVal(ip), StripZeros(fp)), LAMBDA exact :
        IF exact.ok THEN exact
        ELSE IF Canonical(ip, fp) THEN Ok(LitFloat(ip \o <<".">> \o fp))
        ELSE Raise("OutOfModel"))

\* what follows a number literal at position e: a letter that continues the
\* number in a form the model does not follow (exponent, imaginary, prefix,
\* digit separator, keyword), or any other letter, which is a syntax error
AfterNumber(s, e) ==
    IF e > Len(s) \/ ~IsAlpha(s[e]) THEN "ok"
    ELSE IF s[e] \in {"e", "j", "_", "o", "x", "b"} THEN "OutOfModel"
    ELSE IF \E kw \in {<<"a", "n", "d">>, <<"i", "f">>, <<"i", "n">>,
                       <<"i", "s">>, <<"n", "o", "t">>} : StartsAt(s, e, kw)
         THEN "OutOfModel"
    ELSE "SyntaxError"

\* Python's keywords: none of them is a name
Keywords ==
    {<<"F", "a", "l", "s", "e">>, <<"N", "o", "n", "e">>,
     <<"T", "r", "u", "e">>, <<"a", "n", "d">>, <<"a", "s">>,
     <<"a", "s", "s", "e", "r", "t">>, <<"a", "s", "y", "n", "c">>,
     <<"a", "w", "a", "i", "t">>, <<"b", "r", "e", "a", "k">>,
     <<"c", "l", "a", "s", "s">>, <<"c", "o", "n", "t", "i", "n", "u", "e">>,
     <<"d", "e", "f">>, <<"d", "e", "l">>, <<"e", "l", "i", "f">>,
     <<"e", "l", "s", "e">>, <<"e", "x", "c", "e", "p", "t">>,
     <<"f", "i", "n", "a", "l", "l", "y">>, <<"f", "o", "r">>,
     <<"f", "r", "o", "m">>, <<"g", "l", "o", "b", "a", "l">>, <<"i", "f">>,
     <<"i", "m", "p", "o", "r", "t">>, <<"i", "n">>, <<"i", "s">>,
     <<"l", "a", "m", "b", "d", "a">>,
     <<"n", "o", "n", "l", "o", "c", "a", "l">>, <<"n", "o", "t">>,
     <<"o", "r">>, <<"p", "a", "s", "s">>, <<"r", "a", "i", "s", "e">>,
     <<"r", "e", "t", "u", "r", "n">>, <<"t", "r", "y">>,
     <<"w", "h", "i", "l", "e">>, <<"w", "i", "t", "h">>,
     <<"y", "i", "e", "l", "d">>}

\* True and False are keywords that are values
BoolNames == {<<"T", "r", "u", "e">>, <<"F", "a", "l", "s", "e">>}

\* the comparison operator that starts with c and ends with =
CompareOp(c) ==
    CASE c = "<" -> "<=" [] c = ">" -> ">=" [] c = "=" -> "==" [] c = "!" -> "!="

CompareOps == {"<", ">", "<=", ">=", "==", "!="}

\* the token that starts at position i of s (not a space), with the position
\* after it: [ok, tok, next, err]
TokOk(tok, next) == [ok |-> TRUE, tok |-> tok, next |-> next, err |-> "none"]
TokErr(e) == [ok |-> FALSE, tok |-> EndTok, next |-> 0, err |-> e]

\* the number literal s[i..e2-1], whose leading digits end before e1
NumberLiteral(s, i, e1, e2) ==
    IF e1 <= Len(s) /\ s[e1] = "."
    THEN FloatLiteral(SubSeq(s, i, e1 - 1), SubSeq(s, e1 + 1, e2 - 1))
    ELSE IntLiteral(SubSeq(s, i, e1 - 1))

NumberToken(after, lit, e2) ==
    IF after # "ok" THEN TokErr(after)
    ELSE IF ~lit.ok THEN TokErr(lit.err)
    ELSE TokOk(NumTok(lit.v), e2)

NumberAt(s, i) ==
    Bind(DigitsEnd(s, i), LAMBDA e1 :
        Bind(IF e1 <= Len(s) /\ s[e1] = "." THEN DigitsEnd(s, e1 + 1) ELSE e1,
             LAMBDA e2 :
                NumberToken(AfterNumber(s, e2), NumberLiteral(s, i, e1, e2),
                            e2)))

TokenAt(s, i) ==
    LET c == s[i]
    IN  IF IsDigit(c) THEN NumberAt(s, i)
        ELSE IF c = "." /\ i < Len(s) /\ IsDigit(s[i + 1]) THEN NumberAt(s, i)
        ELSE IF IsAlpha(c)
        THEN LET e == NameEnd(s, i)
                 nm == SubSeq(s, i, e - 1)
             IN  IF nm \in BoolNames THEN TokOk(NameTok(nm), e)
                 ELSE IF nm \in Keywords THEN TokErr("OutOfModel")
                 ELSE TokOk(NameTok(nm), e)
        ELSE IF StartsAt(s, i, <<"*", "*">>)
        THEN IF StartsAt(s, i, <<"*", "*", "=">>) THEN TokErr("OutOfModel")
             ELSE TokOk(OpTok("**"), i + 2)
        ELSE IF \E o \in {"<", ">", "=", "!"} : StartsAt(s, i, <<o, "=">>)
        THEN TokOk(OpTok(CompareOp(c)), i + 2)
        ELSE IF c \in {"<", ">"}
        THEN IF i < Len(s) /\ s[i + 1] \in {"<", ">"} THEN TokErr("OutOfModel")
             ELSE TokOk(OpTok(c), i + 1)
        ELSE IF i < Len(s) /\ s[i + 1] = "=" THEN TokErr("OutOfModel")
        ELSE IF c \in {"+", "-", "*", "(", ")", ".", "%"}
        THEN TokOk(OpTok(c), i + 1)
        ELSE IF c = "/"
        THEN IF StartsAt(s, i, <<"/", "/">>) THEN TokErr("OutOfModel")
             ELSE TokOk(OpTok("/"), i + 1)
        ELSE IF c \in {"$", "?", ";"} THEN TokErr("SyntaxError")
        ELSE TokErr("OutOfModel")

\* the tokens of s from position i on; spaces separate tokens
RECURSIVE TokensFrom(_, _)
TokensFrom(s, i) ==
    IF i > Len(s) THEN [ok |-> TRUE, toks |-> <<>>, err |-> "none"]
    ELSE IF s[i] = " " THEN TokensFrom(s, i + 1)
    ELSE Bind(TokenAt(s, i), LAMBDA t :
            IF ~t.ok THEN [ok |-> FALSE, toks |-> <<>>, err |-> t.err]
            ELSE LET rest == TokensFrom(s, t.next)
                 IN  IF ~rest.ok THEN rest
                     ELSE [rest EXCEPT !.toks = <<t.tok>> \o rest.toks])
Tokenize(s) == TokensFrom(s, 1)

(* ---------------------- Python's eval: the parser ---------------------- *)

\* syntax trees
NumNode(v) == [k |-> "num", v |-> v]
NameNode(nm) == [k |-> "name", nm |-> nm]
UnaryNode(o, a) == [k |-> "unary", o |-> o, a |-> a]
BinNode(o, l, r) == [k |-> "bin", o |-> o, l |-> l, r |-> r]
AttrNode(a, nm) == [k |-> "attr", a |-> a, nm |-> nm]
CallNode(f, args) == [k |-> "call", f |-> f, args |-> args]

\* parse results: the tree and the position of the next token, or the error
POk(ast, p) == [ok |-> TRUE, ast |-> ast, p |-> p, err |-> "none"]
PErr(e) == [ok |-> FALSE, ast |-> NumNode(NoVal), p |-> 0, err |-> e]

Peek(toks, p) == IF p <= Len(toks) THEN toks[p] ELSE EndTok
IsOp(tok, o) == tok.k = "op" /\ tok.o = o

\* One recursive operator holds the grammar; `rule` names the production,
\* `left` is the tree built so far by a production that loops.
\*   arith:    term (('+' | '-') term)*                    left-associative
\*   term:     factor (('*' | '/' | '%') factor)*          left-associative
\*   factor:   ('+' | '-') factor | power
\*   power:    primary ['**' factor]
\*   primary:  atom ('.' NAME | '(' [expression] ')')*
\*   atom:     NUMBER | NAME | '(' expression ')'
\*   comparison: arith [compare_op arith]
\* An expression is a comparison: the loosest level the model follows; a
\* chain of comparisons is not followed.
RECURSIVE ParseRule(_, _, _, _)
ParseRule(rule, toks, p, left) ==
    LET t == Peek(toks, p)
    IN  CASE rule = "comparison" ->
              LET l == ParseRule("arith", toks, p, left)
              IN  IF ~l.ok THEN l
                  ELSE IF Peek(toks, l.p).k = "op"
                          /\ Peek(toks, l.p).o \in CompareOps
                  THEN LET r == ParseRule("arith", toks, l.p + 1, left)
                       IN  IF ~r.ok THEN r
                           ELSE IF Peek(toks, r.p).k = "op"
                                   /\ Peek(toks, r.p).o \in CompareOps
                           THEN PErr("OutOfModel")
                           ELSE POk(BinNode(Peek(toks, l.p).o, l.ast, r.ast),
                                    r.p)
                  ELSE l
          [] rule = "arith" ->
              LET l == ParseRule("term", toks, p, left)
              IN  IF ~l.ok THEN l ELSE ParseRule("arith_rest", toks, l.p, l.ast)
          [] rule = "arith_rest" ->
              IF IsOp(t, "+") \/ IsOp(t, "-")
              THEN LET r == ParseRule("term", toks, p + 1, left)
                   IN  IF ~r.ok THEN r
                       ELSE ParseRule("arith_rest", toks, r.p,
                                      BinNode(t.o, left, r.ast))
              ELSE POk(left, p)
          [] rule = "term" ->
              LET l == ParseRule("factor", toks, p, left)
              IN  IF ~l.ok THEN l ELSE ParseRule("term_rest", toks, l.p, l.ast)
          [] rule = "term_rest" ->
              IF IsOp(t, "*") \/ IsOp(t, "/") \/ IsOp(t, "%")
              THEN LET r == ParseRule("factor", toks, p + 1, left)
                   IN  IF ~r.ok THEN r
                       ELSE ParseRule("term_rest", toks, r.p,
                                      BinNode(t.o, left, r.ast))
              ELSE POk(left, p)
          [] rule = "factor" ->
              IF IsOp(t, "+") \/ IsOp(t, "-")
              THEN LET a == ParseRule("factor", toks, p + 1, left)
                   IN  IF ~a.ok THEN a ELSE POk(UnaryNode(t.o, a.ast), a.p)
              ELSE ParseRule("power", toks, p, left)
          [] rule = "power" ->
              \* binds tighter than a unary operator on its left, looser than
              \* one on its right, and associates to the right
              LET b == ParseRule("primary", toks, p, left)
              IN  IF ~b.ok THEN b
                  ELSE IF IsOp(Peek(toks, b.p), "**")
                  THEN LET e == ParseRule("factor", toks, b.p + 1, left)
                       IN  IF ~e.ok THEN e
                           ELSE POk(BinNode("**", b.ast, e.ast), e.p)
                  ELSE b
          [] rule = "primary" ->
              LET a == ParseRule("atom", toks, p, left)
              IN  IF ~a.ok THEN a ELSE ParseRule("trailers", toks, a.p, a.ast)
          [] rule = "trailers" ->
              IF IsOp(t, ".")
              THEN IF Peek(toks, p + 1).k = "name"
                   THEN ParseRule("trailers", toks, p + 2,
                                  AttrNode(left, toks[p + 1].nm))
                   ELSE PErr("SyntaxError")
              ELSE IF IsOp(t, "(")
              THEN IF IsOp(Peek(toks, p + 1), ")")
                   THEN ParseRule("trailers", toks, p + 2, CallNode(left, <<>>))
                   ELSE LET a == ParseRule("comparison", toks, p + 1, left)
                        IN  IF ~a.ok THEN a
                            ELSE IF IsOp(Peek(toks, a.p), ")")
                            THEN ParseRule("trailers", toks, a.p + 1,
                                           CallNode(left, <<a.ast>>))
                            ELSE PErr("SyntaxError")
              ELSE POk(left, p)
          [] rule = "atom" ->
              IF t.k = "num" THEN POk(NumNode(t.v), p + 1)
              ELSE IF t.k = "name" THEN POk(NameNode(t.nm), p + 1)
              ELSE IF IsOp(t, "(")
              THEN IF IsOp(Peek(toks, p + 1), ")") THEN PErr("OutOfModel")  \* ()
                   ELSE LET a == ParseRule("comparison", toks, p + 1, left)
                        IN  IF ~a.ok THEN a
                            ELSE IF IsOp(Peek(toks, a.p), ")")
                            THEN POk(a.ast, a.p + 1)
                            ELSE PErr("SyntaxError")
              ELSE PErr("SyntaxError")

ParseExpr(toks, p) == ParseRule("comparison", toks, p, NumNode(NoVal))

\* the whole token sequence is one expression
Parse(toks) ==
    Bind(ParseExpr(toks, 1), LAMBDA a :
        IF ~a.ok THEN a
        ELSE IF a.p <= Len(toks) THEN PErr("SyntaxError")
        ELSE a)

(* --------------------- Python's eval: the evaluation ------------------- *)

MathName == <<"m", "a", "t", "h">>

\* the functions of the math module that evaluate() rewrites calls to
MathFuncs ==
    {<<"s", "q", "r", "t">>, <<"s", "i", "n">>, <<"c", "o", "s">>,
     <<"t", "a", "n">>, <<"l", "o", "g", "1", "0">>, <<"l", "o", "g">>}

FuncObject(nm) == [t |-> "func", n |-> 0, d |-> 1, lit |-> nm]

\* r >= 0 with r * r = n, or -1
IntSqrt(n) ==
    IF \E r \in 0..MaxAbs : r * r = n
    THEN CHOOSE r \in 0..MaxAbs : r * r = n
    ELSE -1

\* math.<nm>(x): a ValueError outside the function's domain; the values the
\* model follows are the exact ones
MathCall(nm, x) ==
    IF ~IsNum(x) THEN Raise("TypeError")
    ELSE IF ~IsExact(x) THEN Raise("OutOfModel")
    ELSE IF nm = <<"s", "q", "r", "t">>
    THEN IF x.n < 0 THEN Raise("ValueError")
         ELSE IF IntSqrt(x.n) >= 0 /\ IntSqrt(x.d) >= 0
         THEN Norm("float", IntSqrt(x.n), IntSqrt(x.d))
         ELSE Raise("OutOfModel")
    ELSE IF nm \in {<<"s", "i", "n">>, <<"t", "a", "n">>}
    THEN IF x.n = 0 THEN Ok(Float_(0, 1)) ELSE Raise("OutOfModel")
    ELSE IF nm = <<"c", "o", "s">>
    THEN IF x.n = 0 THEN Ok(Float_(1, 1)) ELSE Raise("OutOfModel")
    ELSE IF x.n <= 0 THEN Raise("ValueError")          \* log10, log
    ELSE IF x.n = x.d THEN Ok(Float_(0, 1))
    ELSE IF nm = <<"l", "o", "g", "1", "0">> /\ x.d = 1 /\ x.n = 10
    THEN Ok(Float_(1, 1))
    ELSE Raise("OutOfModel")

BinOp(o, a, b) ==
    CASE o = "+" -> PyAdd(AsNum(a), AsNum(b))
      [] o = "-" -> PySub(AsNum(a), AsNum(b))
      [] o = "*" -> PyMul(AsNum(a), AsNum(b))
      [] o = "/" -> PyDiv(AsNum(a), AsNum(b))
      [] o = "%" -> PyMod(AsNum(a), AsNum(b))
      [] o = "**" -> PyPow(AsNum(a), AsNum(b))
      [] o \in CompareOps -> PyCompare(o, AsNum(a), AsNum(b))

\* eval of a tree in the namespace {"__builtins__": None, "math": math}
RECURSIVE EvalNode(_)
EvalNode(ast) ==
    CASE ast.k = "num" -> Ok(ast.v)
      [] ast.k = "name" ->
            \* any other name is looked up in __builtins__, which is None
            IF ast.nm = MathName THEN Ok(Object("module"))
            ELSE IF ast.nm \in BoolNames
            THEN Ok(Bool_(ast.nm = <<"T", "r", "u", "e">>))
            ELSE Raise("TypeError")
      [] ast.k = "unary" ->
            LET a == EvalNode(ast.a)
            IN  IF ~a.ok THEN a
                ELSE IF ast.o = "-" THEN PyNeg(AsNum(a.v))
                ELSE PyPos(AsNum(a.v))
      [] ast.k = "bin" ->
            LET l == EvalNode(ast.l)
            IN  IF ~l.ok THEN l
                ELSE LET r == EvalNode(ast.r)
                     IN  IF ~r.ok THEN r ELSE BinOp(ast.o, l.v, r.v)
      [] ast.k = "attr" ->
            LET a == EvalNode(ast.a)
            IN  IF ~a.ok THEN a
                ELSE IF a.v.t = "module" /\ ast.nm \in MathFuncs
                THEN Ok(FuncObject(ast.nm))
                ELSE Raise("OutOfModel")
      [] ast.k = "call" ->
            LET f == EvalNode(ast.f)
            IN  IF ~f.ok THEN f
                ELSE IF ast.args = <<>>
                THEN Raise("TypeError")
                ELSE LET x == EvalNode(ast.args[1])
                     IN  IF ~x.ok THEN x
                         ELSE IF f.v.t = "func"
                         THEN MathCall(f.v.lit, AsNum(x.v))
                         ELSE Raise("TypeError")

\* eval(text, {"__builtins__": None}, {"math": math}): the text is compiled
\* whole, so a syntax error comes before any error of evaluation
PyEval(text) ==
    Bind(Tokenize(text), LAMBDA t :
        IF ~t.ok THEN Raise(t.err)
        ELSE Bind(Parse(t.toks), LAMBDA a :
                IF ~a.ok THEN Raise(a.err) ELSE EvalNode(a.ast)))

(* --------------------------- CalculatorEngine -------------------------- *)

\* evaluate(), lines 33-53: the text handed to eval
Rewrite(expression, lr, mem) ==
    LET s1 == Lower(expression)
        s2 == Replace(s1, <<"π">>, PiStr)
        s3 == Replace(s2, <<"p", "i">>, PiStr)
        s4 == Replace(s3, <<"e">>, EStr)
        s5 == ReSub(s4, <<"s", "q", "r", "t">>,
                    <<"m", "a", "t", "h", ".", "s", "q", "r", "t">>)
        s6 == ReSub(s5, <<"s", "i", "n">>,
                    <<"m", "a", "t", "h", ".", "s", "i", "n">>)
        s7 == ReSub(s6, <<"c", "o", "s">>,
                    <<"m", "a", "t", "h", ".", "c", "o", "s">>)
        s8 == ReSub(s7, <<"t", "a", "n">>,
                    <<"m", "a", "t", "h", ".", "t", "a", "n">>)
        s9 == ReSub(s8, <<"l", "o", "g">>,
                    <<"m", "a", "t", "h", ".", "l", "o", "g", "1", "0">>)
        s10 == ReSub(s9, <<"l", "n">>,
                     <<"m", "a", "t", "h", ".", "l", "o", "g">>)
        s11 == Replace(s10, <<"^">>, <<"*", "*">>)
        s12 == Replace(s11, <<"a", "n", "s">>, Str(lr))
    IN  Replace(s12, <<"m">>, Str(mem))

\* the exception evaluate() raises when eval raised `cause` (lines 68-69)
Raised(cause) == "ValueError"

\* the entry put at the front of the list
Recorded_AtFront(h, raw, expression, result) == <<<<expression, result>>>> \o h

\* the history after eval returned `result` for `expression` (line 62)
Recorded(h, raw, expression, result) == Append(h, <<expression, result>>)

\* the last call and what it gave back to the caller: the method, its
\* argument (raw text or value), whether it returned (ok, ret) or raised
\* (err, from the exception `cause` inside it), the list get_history
\* returned (view), and the length of the history when it was called (hlen)
Call(name, raw, arg, ok, ret, err, cause, view) ==
    [name |-> name, raw |-> raw, arg |-> arg, ok |-> ok, ret |-> ret,
     err |-> err, cause |-> cause, view |-> view, hlen |-> Len(history)]

\* CalculatorEngine.__init__(), and the front ends and the task manager as
\* their constructors leave them
Init ==
    /\ history = <<>>
    /\ memory = Int_(0)
    /\ last_result = Int_(0)
    /\ op = Call("init", <<>>, NoVal, TRUE, NoVal, "none", "none", <<>>)
    /\ running = TRUE
    /\ user_input = <<>>
    /\ printed = "Welcome"
    /\ raised = "none"
    /\ display_var = <<>>
    /\ result_var = <<"=", " ", "0">>
    /\ history_text = <<>>
    /\ tasks = <<>>
    /\ storage_file = <<>>
    /\ now = 0

\* evaluate() with the history entry written before eval is known to succeed
Finish_RecordsFirst(raw, expression, r) ==
    /\ r.err # "OutOfModel"
    /\ history' = Append(history, <<expression, r.v>>)
    /\ IF r.ok
       THEN /\ last_result' = r.v
            /\ op' = Call("evaluate", raw, NoVal, TRUE, r.v, "none", "none",
                          <<>>)
       ELSE /\ UNCHANGED last_result
            /\ op' = Call("evaluate", raw, NoVal, FALSE, NoVal,
                          "ValueError", r.err, <<>>)
    /\ UNCHANGED memory

\* evaluate(), lines 55-69: eval gave r for the rewritten expression
Finish(raw, expression, r) ==
    /\ r.err # "OutOfModel"
    /\ IF r.ok
       THEN /\ history' = Recorded(history, raw, expression, r.v)
            /\ last_result' = r.v
            /\ op' = Call("evaluate", raw, NoVal, TRUE, r.v, "none", "none",
                          <<>>)
       ELSE /\ UNCHANGED <<history, last_result>>
            /\ op' = Call("evaluate", raw, NoVal, FALSE, NoVal,
                          Raised(r.err), r.err, <<>>)
    /\ UNCHANGED memory

EvalRewritten(raw, expression) == Finish(raw, expression, PyEval(expression))

\* evaluate(raw)
Evaluate(raw) == EvalRewritten(raw, Rewrite(raw, last_result, memory))

\* store_in_memory() that also takes the value as the last result
StoreInMemory_SetsLastResult(value) ==
    /\ memory' = value
    /\ last_result' = value
    /\ op' = Call("store_in_memory", <<>>, value, TRUE, NoVal, "none", "none",
                  <<>>)
    /\ UNCHANGED history

\* store_in_memory(value)
StoreInMemory(value) ==
    /\ memory' = value
    /\ op' = Call("store_in_memory", <<>>, value, TRUE, NoVal, "none", "none",
                  <<>>)
    /\ UNCHANGED <<history, last_result>>

\* add_to_memory() with = for +=
AddToMemory_Assigns(value) ==
    /\ memory' = value
    /\ op' = Call("add_to_memory", <<>>, value, TRUE, NoVal, "none", "none",
                  <<>>)
    /\ UNCHANGED <<history, last_result>>

\* add_to_memory(value)
AddToMemory(value) ==
    LET r == PyAdd(memory, value)
    IN  /\ r.ok
        /\ memory' = r.v
        /\ op' = Call("add_to_memory", <<>>, value, TRUE, NoVal, "none", "none",
                      <<>>)
        /\ UNCHANGED <<history, last_result>>

\* subtract_from_memory(value)
SubtractFromMemory(value) ==
    LET r == PySub(memory, value)
    IN  /\ r.ok
        /\ memory' = r.v
        /\ op' = Call("subtract_from_memory", <<>>, value, TRUE, NoVal,
                      "none", "none", <<>>)
        /\ UNCHANGED <<history, last_result>>

\* clear_memory()
ClearMemory ==
    /\ memory' = Int_(0)
    /\ op' = Call("clear_memory", <<>>, NoVal, TRUE, NoVal, "none", "none",
                  <<>>)
    /\ UNCHANGED <<history, last_result>>

\* get_memory()
GetMemory ==
    /\ op' = Call("get_memory", <<>>, NoVal, TRUE, memory, "none", "none",
                  <<>>)
    /\ UNCHANGED <<history, memory, last_result>>

\* get_history()
GetHistory ==
    /\ op' = Call("get_history", <<>>, NoVal, TRUE, NoVal, "none", "none",
                  history)
    /\ UNCHANGED <<history, memory, last_result>>

\* clear_history() that resets the whole engine
ClearHistory_ResetsAll ==
    /\ history' = <<>>
    /\ memory' = Int_(0)
    /\ last_result' = Int_(0)
    /\ op' = Call("clear_history", <<>>, NoVal, TRUE, NoVal, "none", "none",
                  <<>>)

\* clear_history()
ClearHistory ==
    /\ history' = <<>>
    /\ op' = Call("clear_history", <<>>, NoVal, TRUE, NoVal, "none", "none",
                  <<>>)
    /\ UNCHANGED <<memory, last_result>>

(* ------------------------- CommandLineCalculator ----------------------- *)

engineVars == <<history, memory, last_result, op>>

IsSpace(c) == c = " "

\* str.strip()
RECURSIVE LStrip(_)
LStrip(s) == IF s # <<>> /\ IsSpace(s[1]) THEN LStrip(Tail(s)) ELSE s
RECURSIVE RStrip(_)
RStrip(s) ==
    IF s # <<>> /\ IsSpace(s[Len(s)])
    THEN RStrip(SubSeq(s, 1, Len(s) - 1)) ELSE s
Strip(s) == RStrip(LStrip(s))

\* the first position >= i of s that holds a space
RECURSIVE WordEnd(_, _)
WordEnd(s, i) ==
    IF i <= Len(s) /\ ~IsSpace(s[i]) THEN WordEnd(s, i + 1) ELSE i

\* str.split(maxsplit=1): the first word, and what follows the spaces after it
Split1(s) ==
    LET t == LStrip(s)
        e == WordEnd(t, 1)
        rest == LStrip(SubSeq(t, e, Len(t)))
    IN  IF t = <<>> THEN <<>>
        ELSE IF rest = <<>> THEN <<SubSeq(t, 1, e - 1)>>
        ELSE <<SubSeq(t, 1, e - 1), rest>>

\* float(value) of a text: spaces around it and a sign are allowed; the texts
\* nan, inf, infinity, an exponent and digit separators are not followed
FloatOfBody(body, e1, e2) ==
    IF e2 <= Len(body)
    THEN IF \E i \in 1..Len(body) : LowerChar(body[i]) \in {"n", "i", "e", "_"}
         THEN Raise("OutOfModel") ELSE Raise("ValueError")
    ELSE IF e1 = 1 /\ e2 <= 2 THEN Raise("ValueError")
    ELSE FloatLiteral(SubSeq(body, 1, e1 - 1), SubSeq(body, e1 + 1, e2 - 1))

FloatOfUnsigned(body) ==
    Bind(DigitsEnd(body, 1), LAMBDA e1 :
        FloatOfBody(body, e1,
                    IF e1 <= Len(body) /\ body[e1] = "."
                    THEN DigitsEnd(body, e1 + 1) ELSE e1))

FloatOf(value) ==
    Bind(Strip(value), LAMBDA t :
        IF t # <<>> /\ t[1] = "-"
        THEN Bind(FloatOfUnsigned(Tail(t)), LAMBDA f :
                IF f.ok THEN PyNeg(f.v) ELSE f)
        ELSE IF t # <<>> /\ t[1] = "+" THEN FloatOfUnsigned(Tail(t))
        ELSE FloatOfUnsigned(t))

Help == <<"h", "e", "l", "p">>
History == <<"h", "i", "s", "t", "o", "r", "y">>
Clear == <<"c", "l", "e", "a", "r">>
Memory == <<"m", "e", "m", "o", "r", "y">>
MPlus == <<"m", "+">>
MMinus == <<"m", "-">>
Mc == <<"m", "c">>
Ms == <<"m", "s">>
Exit == <<"e", "x", "i", "t">>
Quit == <<"q", "u", "i", "t">>

\* the keys of self.commands
Commands == {Help, History, Clear, Memory, MPlus, MMinus, Mc, Ms, Exit, Quit}

\* input() gave a text, or raised
Typed(text) == [exc |-> "none", text |-> text]
NotTyped(exc) == [exc |-> exc, text |-> <<>>]

\* run() without its handler for Exception: every exception ends the loop
Continues_NothingCaught(exc) == exc = "none"

\* run(), lines 241-245: whether the loop goes on after `exc` was raised
\* while a line was read or handled: KeyboardInterrupt breaks the loop, any
\* Exception is printed, and SystemExit is not caught
Continues(exc) == exc \notin {"KeyboardInterrupt", "SystemExit"}

\* what is on the terminal after the handling of a line printed `out` and
\* ended with `exc`
Reported(exc, out) ==
    IF exc \in {"none", "SystemExit"} THEN out
    ELSE IF exc = "KeyboardInterrupt" THEN "Exiting..."
    ELSE "Error: "

\* the handling of a line printed `out` and ended with `exc`
Ends(exc, out) ==
    /\ raised' = exc
    /\ printed' = Reported(exc, out)
    /\ running' = Continues(exc)

\* show_help()
ShowHelp == Ends("none", "Calculator Help") /\ UNCHANGED engineVars

\* show_history()
ShowHistory ==
    /\ GetHistory
    /\ Ends("none", IF history = <<>> THEN "No calculation history."
                    ELSE "Calculation History")

\* CommandLineCalculator.clear_history()
CliClearHistory == ClearHistory /\ Ends("none", "Calculation history cleared.")

\* show_memory()
ShowMemory == GetMemory /\ Ends("none", "Memory: ")

\* memory_clear()
MemoryClear == ClearMemory /\ Ends("none", "Memory cleared.")

\* exit_app(): sys.exit(0)
ExitApp == Ends("SystemExit", "Goodbye!") /\ UNCHANGED engineVars

\* memory_add, memory_subtract and memory_store: the value is the rest of the
\* line, or what input() gives when the line has no more; a text that is not
\* a number is reported
MemoryCommand(command, value) ==
    IF value.exc # "none" THEN Ends(value.exc, "") /\ UNCHANGED engineVars
    ELSE LET f == FloatOf(value.text)
         IN  /\ f.err # "OutOfModel"
             /\ IF ~f.ok
                THEN /\ Ends("none", "Invalid value. Please enter a number.")
                     /\ UNCHANGED engineVars
                ELSE CASE command = MPlus ->
                            AddToMemory(f.v) /\ Ends("none", "Added")
                       [] command = MMinus ->
                            SubtractFromMemory(f.v) /\ Ends("none", "Subtracted")
                       [] command = Ms ->
                            StoreInMemory(f.v) /\ Ends("none", "Stored")

\* self.commands[command](): the handler called without an argument; typed is
\* what input() gives if the handler asks for the value
CallCommand(command, typed) ==
    CASE command = Help -> ShowHelp
      [] command = History -> ShowHistory
      [] command = Clear -> CliClearHistory
      [] command = Memory -> ShowMemory
      [] command = Mc -> MemoryClear
      [] command \in {Exit, Quit} -> ExitApp
      [] command \in {MPlus, MMinus, Ms} -> MemoryCommand(command, typed)

\* self.commands[command](parts[1]): a handler that takes no argument raises
\* TypeError before it runs
CallCommandWith(command, arg) ==
    IF command \in {MPlus, MMinus, Ms} THEN MemoryCommand(command, Typed(arg))
    ELSE Ends("TypeError", "") /\ UNCHANGED engineVars

\* process_input(user_input), lines 213-226
Dispatch(line, parts, typed) ==
    IF parts = <<>> THEN Ends("IndexError", "") /\ UNCHANGED engineVars
    ELSE IF Lower(parts[1]) \in Commands
    THEN IF Len(parts) > 1 THEN CallCommandWith(Lower(parts[1]), parts[2])
         ELSE CallCommand(Lower(parts[1]), typed)
    ELSE /\ Evaluate(line)
         /\ Ends("none", IF op'.ok THEN "= " ELSE "Error: ")

ProcessInput(line, typed) == Dispatch(line, Split1(Strip(line)), typed)

\* run(): one turn of the loop that reads `line`; an empty line is skipped
RunLine(line, typed) ==
    /\ running
    /\ user_input' = line
    /\ IF line = <<>>
       THEN /\ UNCHANGED <<engineVars, printed, running>>
            /\ raised' = "none"
       ELSE ProcessInput(line, typed)
    /\ UNCHANGED <<guiVars, todoVars>>

\* run(): one turn of the loop in which input() raises (Ctrl-C, end of file)
RunNoLine(exc) ==
    /\ running
    /\ Ends(exc, "")
    /\ UNCHANGED <<engineVars, user_input, guiVars, todoVars>>

(* ----------------------------- CalculatorGUI --------------------------- *)

\* f"{expression} = {result}": a line of the history panel
HistoryLine(expression, result) ==
    expression \o <<" ", "=", " ">> \o Str(result)

\* f"= {result}"
ResultText(result) == <<"=", " ">> \o Str(result)

\* f"Error: {str(e)}", up to the message of the exception inside
ErrorText ==
    <<"E", "r", "r", "o", "r", ":", " ", "I", "n", "v", "a", "l", "i", "d", " ",
      "e", "x", "p", "r", "e", "s", "s", "i", "o", "n", ":", " ">>

\* the entry is editable: the user leaves `text` in it (keys, or the buttons
\* of append_to_display)
EnterDisplay(text) ==
    /\ display_var' = text
    /\ UNCHANGED <<engineVars, result_var, history_text, cliVars, todoVars>>

\* clear(): the C button
GuiClear ==
    /\ display_var' = <<>>
    /\ result_var' = <<"=", " ", "0">>
    /\ UNCHANGED <<engineVars, history_text, cliVars, todoVars>>

\* update_history(expression, result)
UpdateHistory(expression, result) ==
    history_text' = Append(history_text, HistoryLine(expression, result))

\* calculate(): the = button
Calculate ==
    /\ IF display_var = <<>>
       THEN UNCHANGED <<engineVars, result_var, history_text>>
       ELSE /\ Evaluate(display_var)
            /\ IF op'.ok
               THEN /\ result_var' = ResultText(op'.ret)
                    /\ UpdateHistory(display_var, op'.ret)
               ELSE /\ result_var' = ErrorText
                    /\ UNCHANGED history_text
    /\ UNCHANGED <<display_var, cliVars, todoVars>>

\* CalculatorGUI.clear_history() that leaves the engine's history alone
GuiClearHistory_PanelOnly ==
    /\ history_text' = <<>>
    /\ UNCHANGED <<engineVars, display_var, result_var, cliVars, todoVars>>

\* CalculatorGUI.clear_history(): the Clear History button
GuiClearHistory ==
    /\ history_text' = <<>>
    /\ ClearHistory
    /\ UNCHANGED <<display_var, result_var, cliVars, todoVars>>

(* ------------------------ TaskManager (todolist.py) -------------------- *)

\* Priority and Status, and None for an optional argument left out
Priorities == {"low", "medium", "high"}
Statuses == {"todo", "in_progress", "done"}
None == "None"
\* due_date None
NoDate == 0

\* the key of the sort by due date for a task without one: "9999-12-31"
FarDate == 99991231

\* Task(title, description, due_date, priority): created now, with a new id;
\* a date YYYY-MM-DD is the number YYYYMMDD, and a time is a number
Task(due_date, priority) ==
    [id |-> now, due_date |-> due_date, priority |-> priority,
     status |-> "todo", created_at |-> now, updated_at |-> now]

\* save_tasks(): the file holds the tasks in the order of the list
Saved(ts) == ts

\* add_task(task)
AddTask(task) ==
    /\ tasks' = Append(tasks, task)
    /\ storage_file' = Saved(tasks')
    /\ now' = now + 1
    /\ op' = Call("add_task", <<>>, task, TRUE, NoVal, "none", "none", <<>>)
    /\ UNCHANGED <<history, memory, last_result, cliVars, guiVars>>

\* get_task(task_id): the position of the first task with that id, or 0
GetTask(task_id) ==
    IF \E i \in 1..Len(tasks) : tasks[i].id = task_id
    THEN CHOOSE i \in 1..Len(tasks) :
            /\ tasks[i].id = task_id
            /\ \A j \in 1..(i - 1) : tasks[j].id # task_id
    ELSE 0

\* Task.update(priority, status): None leaves a field as it is
Updated(task, priority, status) ==
    [task EXCEPT !.priority = IF priority = None THEN @ ELSE priority,
                 !.status = IF status = None THEN @ ELSE status,
                 !.updated_at = now]

\* update_task(task_id, priority=..., status=...)
UpdateTask(task_id, priority, status) ==
    /\ IF GetTask(task_id) = 0
       THEN UNCHANGED <<tasks, storage_file, now>>
       ELSE /\ tasks' = [tasks EXCEPT ![GetTask(task_id)] =
                            Updated(@, priority, status)]
            /\ storage_file' = Saved(tasks')
            /\ now' = now + 1
    /\ op' = Call("update_task", <<>>, task_id, TRUE,
                  Bool_(GetTask(task_id) # 0), "none", "none", <<>>)
    /\ UNCHANGED <<history, memory, last_result, cliVars, guiVars>>

\* delete_task(task_id)
DeleteTask(task_id) ==
    /\ IF GetTask(task_id) = 0
       THEN UNCHANGED <<tasks, storage_file>>
       ELSE /\ tasks' = SubSeq(tasks, 1, GetTask(task_id) - 1)
                          \o SubSeq(tasks, GetTask(task_id) + 1, Len(tasks))
            /\ storage_file' = Saved(tasks')
    /\ op' = Call("delete_task", <<>>, task_id, TRUE,
                  Bool_(GetTask(task_id) # 0), "none", "none", <<>>)
    /\ UNCHANGED <<now, history, memory, last_result, cliVars, guiVars>>

\* priority_order
PriorityOrder(priority) ==
    CASE priority = "high" -> 0 [] priority = "medium" -> 1
      [] priority = "low" -> 2

\* the key function of list_tasks for sort_by
SortKey(sort_by, task) ==
    IF sort_by = "priority" THEN PriorityOrder(task.priority)
    ELSE IF sort_by = "due_date"
    THEN IF task.due_date = NoDate THEN FarDate ELSE task.due_date
    ELSE task.created_at

\* list.sort(key=...): stable, so a task goes after those with an equal key
RECURSIVE Inserted(_, _, _)
Inserted(sorted, task, sort_by) ==
    IF sorted = <<>> THEN <<task>>
    ELSE IF SortKey(sort_by, sorted[Len(sorted)]) <= SortKey(sort_by, task)
    THEN Append(sorted, task)
    ELSE Append(Inserted(SubSeq(sorted, 1, Len(sorted) - 1), task, sort_by),
                sorted[Len(sorted)])

RECURSIVE Sorted(_, _)
Sorted(ts, sort_by) ==
    IF ts = <<>> THEN <<>>
    ELSE Inserted(Sorted(SubSeq(ts, 1, Len(ts) - 1), sort_by), ts[Len(ts)],
                  sort_by)

\* the list comprehensions of list_tasks
WithStatus(ts, status) == SelectSeq(ts, LAMBDA task : task.status = status)
WithPriority(ts, priority) ==
    SelectSeq(ts, LAMBDA task : task.priority = priority)

\* filtered_tasks before the sort: self.tasks itself unless a filter built a
\* new list
Filtered(status, priority) ==
    Bind(IF status = None THEN tasks ELSE WithStatus(tasks, status),
         LAMBDA ts : IF priority = None THEN ts ELSE WithPriority(ts, priority))

\* list_tasks(status, priority, sort_by): the sort is in place, and without a
\* filter the list it sorts is self.tasks
ListTasks(status, priority, sort_by) ==
    /\ op' = Call("list_tasks", <<>>,
                  [status |-> status, priority |-> priority,
                   sort_by |-> sort_by],
                  TRUE, NoVal, "none", "none",
                  Sorted(Filtered(status, priority), sort_by))
    /\ tasks' = IF status = None /\ priority = None
                THEN Sorted(tasks, sort_by) ELSE tasks
    /\ UNCHANGED <<storage_file, now, history, memory, last_result, cliVars,
                   guiVars>>

(* ------------------------------- inputs -------------------------------- *)

TwoPlusTwo == <<"2", " ", "+", " ", "2">>
AnsTimesTen == <<"a", "n", "s", " ", "*", " ", "1", "0">>
AnsSquared == <<"a", "n", "s", " ", "^", " ", "2">>
MPlusOne == <<"m", " ", "+", " ", "1">>
MSquared == <<"m", " ", "^", " ", "2">>
TwoMinusM == <<"2", " ", "-", " ", "m">>
OneOverZero == <<"1", "/", "0">>
TwoPlus == <<"2", " ", "+">>
Five == <<"5">>
SqrtFour == <<"s", "q", "r", "t", "(", "4", ")">>
SqrtMinusOne == <<"s", "q", "r", "t", "(", "-", "1", ")">>
SqrtMixed == <<"s", "q", "r", "t", "(", "2", ")", " ", "+", " ", "m", " ", "*", " ", "a", "n", "s">>
SinZero == <<"s", "i", "n", "(", "0", ")">>
CosZero == <<"c", "o", "s", "(", "0", ")">>
TanZero == <<"t", "a", "n", "(", "0", ")">>
LogOne == <<"l", "o", "g", "(", "1", ")">>
LnOne == <<"l", "n", "(", "1", ")">>

\* the model follows a call while the history and the memory register it
\* leaves stay within the bounds
InHist(h, cap) == Len(h) <= cap
InMem(v) == IsExact(v) /\ Abs(v.n) <= MaxMem * v.d

(* Spec: every operation of the engine; the expressions do not read the     *)
(* memory register, so the history stays small.                            *)

Exprs == {TwoPlusTwo, AnsTimesTen, OneOverZero, TwoPlus, SqrtMinusOne}

\* the values handed to the memory operations
MemArgs == {Int_(5), Float_(2, 1)}

Next ==
    /\ \/ \E raw \in Exprs : Evaluate(raw) /\ InHist(history', MaxHist)
       \/ \E v \in MemArgs : StoreInMemory(v)
       \/ \E v \in MemArgs : AddToMemory(v) /\ InMem(memory')
       \/ \E v \in MemArgs : SubtractFromMemory(v) /\ InMem(memory')
       \/ ClearMemory
       \/ GetMemory
       \/ GetHistory
       \/ ClearHistory
    /\ UNCHANGED <<cliVars, guiVars, todoVars>>

Spec == Init /\ [][Next]_vars

(* SpecSymbols: the expressions that use m, ans and the function names,    *)
(* over a few memory values.                                               *)

SymbolExprs ==
    {MPlusOne, MSquared, TwoMinusM, AnsSquared, AnsTimesTen, TwoPlusTwo, Five,
     SqrtFour, SqrtMinusOne, SqrtMixed, SinZero, CosZero, TanZero, LogOne,
     LnOne}

SymbolMemArgs == {Int_(5), Int_(-2)}

NextSymbols ==
    /\ \/ \E raw \in SymbolExprs :
             Evaluate(raw) /\ InHist(history', MaxSymbolHist)
       \/ \E v \in SymbolMemArgs : StoreInMemory(v)
       \/ ClearHistory
    /\ UNCHANGED <<cliVars, guiVars, todoVars>>

SpecSymbols == Init /\ [][NextSymbols]_vars

(* SpecGrammar: expressions that mix the operators over small operands,    *)
(* and expressions with characters that are not part of the calculator's   *)
(* notation.                                                               *)

Operands == 1..MaxOperand

\* the text "x o y p z" of two binary operators over three operands
Mixed(x, o, y, p, z) ==
    NatStr(x) \o <<" ", o, " ">> \o NatStr(y) \o <<" ", p, " ">> \o NatStr(z)

SumProduct(a, b, c) == Mixed(a, "+", b, "*", c)
ProductOfSum(a, b, c) ==
    <<"(">> \o NatStr(a) \o <<" ", "+", " ">> \o NatStr(b)
            \o <<")", " ", "*", " ">> \o NatStr(c)
PowerTower(a, b, c) == Mixed(a, "^", b, "^", c)
Differences(a, b, c) == Mixed(a, "-", b, "-", c)
NegatedPower(a, b) == <<"-">> \o NatStr(a) \o <<" ", "^", " ">> \o NatStr(b)

MixedExprs ==
    UNION {{SumProduct(a, b, c), ProductOfSum(a, b, c), PowerTower(a, b, c),
            Differences(a, b, c), NegatedPower(a, b)} :
           a \in Operands, b \in Operands, c \in Operands}

SevenModThree == <<"7", " ", "%", " ", "3">>
OneLessTwo == <<"1", " ", "<", " ", "2">>
TwoEqualsThree == <<"2", " ", "=", "=", " ", "3">>
TwoDollarThree == <<"2", " ", "$", " ", "3">>
AnsTimesOne == <<"a", "n", "s", " ", "*", " ", "1">>

OtherExprs ==
    {SevenModThree, OneLessTwo, TwoEqualsThree, TwoDollarThree, AnsTimesOne}

NextGrammar ==
    /\ \/ \E raw \in MixedExprs \cup OtherExprs :
             Evaluate(raw) /\ InHist(history', MaxGrammarHist)
       \/ ClearHistory
    /\ UNCHANGED <<cliVars, guiVars, todoVars>>

SpecGrammar == Init /\ [][NextGrammar]_vars

(* SpecCli: the loop of CommandLineCalculator.run over lines of every      *)
(* kind: expressions, commands with and without a value, commands given a  *)
(* word they do not take, blank lines, and input() raising.                *)

Blank == <<" ", " ">>
HelpMe == Help \o <<" ">> \o <<"m", "e">>
HistoryAll == History \o <<" ">> \o <<"a", "l", "l">>
ExitNow == <<"E", "x", "i", "t">> \o <<" ">> \o <<"n", "o", "w">>
MsFive == Ms \o <<" ", "5">>
MsWord == Ms \o <<" ", "a", "b", "c">>
MPlusFive == <<"M", "+", " ", " ", "5", ".", "0">>
MMinusFive == MMinus \o <<" ", "5">>

CliLines ==
    {TwoPlusTwo, TwoPlus, OneOverZero, <<>>, Blank, Help, HelpMe, History,
     HistoryAll, Clear, Memory, Mc, Ms, MsFive, MsWord, MPlusFive, MMinusFive,
     Exit, Quit, ExitNow}

\* what input() gives to a handler that asks for its value
CliTyped ==
    {Typed(<<"5">>), Typed(<<"x">>), NotTyped("KeyboardInterrupt"),
     NotTyped("EOFError")}

NextCli ==
    \/ \E line \in CliLines, typed \in CliTyped :
          /\ RunLine(line, typed)
          /\ InHist(history', MaxCliHist)
          /\ InMem(memory')
    \/ \E exc \in {"KeyboardInterrupt", "EOFError"} : RunNoLine(exc)

SpecCli == Init /\ [][NextCli]_vars

(* SpecGui: the entry, the = button, the C button and the Clear History    *)
(* button of CalculatorGUI.                                                *)

TwoCubed == <<"2", " ", "^", " ", "3">>

GuiExprs == {TwoPlusTwo, TwoCubed, OneOverZero}

NextGui ==
    \/ \E text \in GuiExprs : EnterDisplay(text)
    \/ GuiClear
    \/ Calculate /\ InHist(history', MaxGuiHist)
    \/ GuiClearHistory

SpecGui == Init /\ [][NextGui]_vars

(* SpecTasks: TaskManager with tasks of every priority, with and without a *)
(* due date, listed with and without filters in each sort order.           *)

DueDates == {NoDate, 20260101}

SortOrders == {"created_at", "priority", "due_date"}

NextTasks ==
    \/ \E due_date \in DueDates, priority \in Priorities :
          /\ Len(tasks) < MaxTasks /\ now <= MaxNow
          /\ AddTask(Task(due_date, priority))
    \/ \E task_id \in 0..MaxNow, status \in {None, "done"} :
          /\ now <= MaxNow
          /\ UpdateTask(task_id, None, status)
    \/ \E task_id \in 0..MaxNow : DeleteTask(task_id)
    \/ \E status \in {None, "todo", "done"}, priority \in {None, "high"},
          sort_by \in SortOrders : ListTasks(status, priority, sort_by)

SpecTasks == Init /\ [][NextTasks]_vars

(* ------------------------------- claims -------------------------------- *)

\* C1: an evaluate call that fails raises an error to the caller and leaves
\* history, last_result and memory exactly as they were before the call
\* (so repeating the failing call never changes the history length).
C1_FailedEvaluateChangesNothing ==
    [][(op'.name = "evaluate" /\ ~op'.ok) =>
          /\ op'.err # "none"
          /\ history' = history
          /\ last_result' = last_result
          /\ memory' = memory]_vars

\* a failed "1/0" in a state with a full history, a stored memory value and
\* a last result
C1_Witness ==
    /\ op.name = "evaluate" /\ ~op.ok /\ op.raw = OneOverZero
    /\ op.cause = "ZeroDivisionError"
    /\ Len(history) = MaxHist /\ op.hlen = MaxHist
    /\ memory = Float_(7, 1) /\ last_result = Int_(40)

\* C2: every successful evaluate(raw) appends exactly one history entry
\* (raw, returned value), sets last_result to the returned value and
\* returns it.
C2_SuccessRecordsRawInput ==
    (op.name = "evaluate" /\ op.ok) =>
        /\ Len(history) = op.hlen + 1
        /\ history[Len(history)] = <<op.raw, op.ret>>
        /\ last_result = op.ret

\* C3: the history changes only by one entry appended at the end, by a
\* successful evaluate and holding the value it returned, or by being
\* emptied by clear_history; every successful evaluate appends, and no other
\* call changes the history.
C3_HistoryAppendOnly ==
    [][/\ (op'.name = "evaluate" /\ op'.ok) =>
             /\ Len(history') = Len(history) + 1
             /\ SubSeq(history', 1, Len(history)) = history
             /\ history'[Len(history')][2] = op'.ret
       /\ op'.name = "clear_history" => history' = <<>>
       /\ ~(op'.name = "evaluate" /\ op'.ok) /\ op'.name # "clear_history"
             => history' = history]_vars

\* three successful evaluations, listed by get_history in call order
C3_Witness ==
    /\ op.name = "get_history" /\ Len(op.view) = 3
    /\ op.view[1][2] = Int_(4) /\ op.view[2][2] = Int_(40)
    /\ op.view[3][2] = Int_(400)
    /\ history = op.view

\* C4: clear_history empties the history and leaves memory and last_result
\* unchanged.
C4_ClearHistoryFrame ==
    [][op'.name = "clear_history" =>
          /\ history' = <<>>
          /\ memory' = memory
          /\ last_result' = last_result]_vars

\* clear_history has emptied a history of three entries while the memory
\* and the last result hold values
C4_Witness ==
    /\ op.name = "clear_history" /\ op.hlen = 3 /\ history = <<>>
    /\ memory = Float_(7, 1) /\ last_result = Int_(400)

\* c is the Python sum a + b: the rational sum, a float unless both are ints
IsSum(c, a, b) ==
    /\ IsExact(a) /\ IsExact(b) /\ IsExact(c)
    /\ c.n * a.d * b.d = (a.n * b.d + b.n * a.d) * c.d
    /\ c.t = IF a.t = "int" /\ b.t = "int" THEN "int" ELSE "float"

\* c is the Python difference a - b
IsDifference(c, a, b) ==
    /\ IsExact(a) /\ IsExact(b) /\ IsExact(c)
    /\ c.n * a.d * b.d = (a.n * b.d - b.n * a.d) * c.d
    /\ c.t = IF a.t = "int" /\ b.t = "int" THEN "int" ELSE "float"

\* C5: the memory register starts at 0; store_in_memory(v) makes it v,
\* add_to_memory(v) makes it old + v, subtract_from_memory(v) makes it
\* old - v, clear_memory makes it 0, and get_memory returns the current value
\* without changing it.
C5_MemoryRegisterArithmetic ==
    /\ memory = Int_(0)
    /\ [][/\ op'.name = "store_in_memory" => memory' = op'.arg
          /\ op'.name = "add_to_memory" => IsSum(memory', memory, op'.arg)
          /\ op'.name = "subtract_from_memory" =>
                IsDifference(memory', memory, op'.arg)
          /\ op'.name = "clear_memory" => memory' = Int_(0)
          /\ op'.name = "get_memory" =>
                op'.ret = memory /\ memory' = memory]_vars

\* add_to_memory(2.0) has made a stored 5 into 7.0
C5_Witness ==
    /\ op.name = "add_to_memory" /\ op.arg = Float_(2, 1)
    /\ memory = Float_(7, 1)

MemoryCalls ==
    {"store_in_memory", "add_to_memory", "subtract_from_memory",
     "clear_memory"}

\* C6: store_in_memory, add_to_memory, subtract_from_memory and clear_memory
\* can always be called with a number, return without an error, and leave
\* history and last_result as they were.
C6_MemoryCallsFrame ==
    /\ [](\A v \in MemArgs :
             /\ ENABLED StoreInMemory(v)
             /\ ENABLED AddToMemory(v)
             /\ ENABLED SubtractFromMemory(v)
             /\ ENABLED ClearMemory)
    /\ [][op'.name \in MemoryCalls =>
             /\ op'.ok /\ op'.err = "none"
             /\ history' = history
             /\ last_result' = last_result]_vars

\* store_in_memory has run in a state with a history and a last result
C6_Witness ==
    /\ op.name = "store_in_memory" /\ memory = op.arg
    /\ Len(history) = 2 /\ op.hlen = 2 /\ last_result = Int_(40)

\* C7: an expression that uses m evaluates with m standing for the memory
\* value as one numeric operand: "m + 1" gives memory + 1, "m ^ 2" gives
\* memory squared, "2 - m" gives 2 - memory, negative values included.
C7_MemoryIsAnOperand ==
    /\ (op.name = "evaluate" /\ op.raw = MPlusOne) =>
          op.ok /\ op.ret.n * memory.d = (memory.n + memory.d) * op.ret.d
    /\ (op.name = "evaluate" /\ op.raw = MSquared) =>
          op.ok /\ op.ret.n * memory.d * memory.d
                     = memory.n * memory.n * op.ret.d
    /\ (op.name = "evaluate" /\ op.raw = TwoMinusM) =>
          op.ok /\ op.ret.n * memory.d
                     = (2 * memory.d - memory.n) * op.ret.d

\* C8: ans stands for the result of the most recent successful evaluation,
\* 0 before the first: last_result starts at 0 and changes only to the value
\* a successful evaluate returns, "ans * 10" gives ten times it and
\* "ans ^ 2" its square.
C8_AnsIsLastSuccessfulResult ==
    /\ last_result = Int_(0)
    /\ [][/\ (op'.name = "evaluate" /\ op'.raw = AnsTimesTen) =>
                op'.ok /\ op'.ret.n * last_result.d
                            = 10 * last_result.n * op'.ret.d
          /\ (op'.name = "evaluate" /\ op'.raw = AnsSquared) =>
                op'.ok /\ op'.ret.n * last_result.d * last_result.d
                            = last_result.n * last_result.n * op'.ret.d
          /\ last_result' = IF op'.name = "evaluate" /\ op'.ok
                            THEN op'.ret ELSE last_result]_vars

\* C9: a call of a built-in function on an argument in its domain succeeds:
\* the substitution of pi, e, ans and m leaves the function names alone.
C9_FunctionCallsSucceed ==
    (op.name = "evaluate"
       /\ op.raw \in {SqrtFour, SinZero, CosZero, TanZero, LogOne, LnOne})
    => op.ok

\* C10: "1/0" returns no value and raises ZeroDivisionError, which the caller
\* can tell from the ValueError of a malformed expression.
C10_DivisionByZeroIsDistinct ==
    (op.name = "evaluate" /\ op.raw = OneOverZero) =>
        ~op.ok /\ op.err = "ZeroDivisionError"

\* C11: operators bind, from tightest to loosest, unary minus, ^ (to the
\* right), * and / (to the left), + and - (to the left), and parentheses
\* override: over small operands "a + b * c" is a + (b*c), "(a + b) * c" is
\* (a+b)*c, "a ^ b ^ c" is a^(b^c), "a - b - c" is (a-b)-c and "-a ^ b" is
\* (-a)^b.
C11_OperatorBinding ==
    \A a \in Operands, b \in Operands, c \in Operands :
        op.name = "evaluate" =>
            /\ op.raw = SumProduct(a, b, c) =>
                  op.ok /\ NumEq(op.ret, Int_(a + b * c))
            /\ op.raw = ProductOfSum(a, b, c) =>
                  op.ok /\ NumEq(op.ret, Int_((a + b) * c))
            /\ op.raw = PowerTower(a, b, c) =>
                  op.ok /\ NumEq(op.ret, Int_(PowCap(a, PowCap(b, c))))
            /\ op.raw = Differences(a, b, c) =>
                  op.ok /\ NumEq(op.ret, Int_((a - b) - c))
            /\ op.raw = NegatedPower(a, b) =>
                  op.ok /\ NumEq(op.ret, Int_(PowCap(-a, b)))

\* the characters of the calculator's notation: decimal numbers, the names
\* sqrt sin cos tan log ln pi e ans m, the operators and parentheses
NotationChars ==
    {Digits[i] : i \in 1..10} \cup {LowerCase[i] : i \in 1..26}
    \cup {UpperCase[i] : i \in 1..26}
    \cup {".", "+", "-", "*", "/", "^", "(", ")", " ", "π"}

HasOtherChar(raw) == \E i \in 1..Len(raw) : raw[i] \notin NotationChars

\* C12: evaluate accepts only the arithmetic notation: an input with a
\* character outside it (%, <, =, $ ...) is rejected with an error, and gives
\* no result and no history entry.
C12_OnlyTheNotationIsAccepted ==
    (op.name = "evaluate" /\ HasOtherChar(op.raw)) =>
        /\ ~op.ok
        /\ op.err # "none"
        /\ Len(history) = op.hlen

\* C13: in every reachable state last_result and the result of every history
\* entry are numbers, never a boolean or another kind of value.
C13_ResultsAreNumbers ==
    /\ IsNum(last_result)
    /\ \A i \in 1..Len(history) : IsNum(history[i][2])

\* the line is the exit or quit command
IsExitCommand(line) ==
    /\ Len(Split1(Strip(line))) = 1
    /\ Lower(Split1(Strip(line))[1]) \in {Exit, Quit}

\* lines whose handling raises: invalid expressions, a line of spaces, and
\* commands that take no value given a word
FailingLines == {TwoPlus, OneOverZero, Blank, HelpMe, HistoryAll, ExitNow}

\* C14: in CommandLineCalculator.run no error raised while a line is handled
\* is fatal: for every line other than exit/quit (an invalid expression, a
\* line of spaces, a no-argument command given an extra word) the error is
\* reported, the loop goes back to the prompt and the engine state is as it
\* was; the loop ends only on exit/quit or a keyboard interrupt.
C14_NoErrorIsFatal ==
    [][/\ ~running' =>
            \/ raised' = "KeyboardInterrupt"
            \/ raised' = "SystemExit" /\ IsExitCommand(user_input')
       /\ (raised' # "KeyboardInterrupt" /\ ~IsExitCommand(user_input')) =>
            running'
       /\ raised' \notin {"none", "KeyboardInterrupt", "SystemExit"} =>
            /\ printed' = "Error: "
            /\ UNCHANGED <<history, memory, last_result>>
       /\ (user_input' \in FailingLines /\ raised' # "KeyboardInterrupt") =>
            /\ printed' = "Error: "
            /\ running'
            /\ UNCHANGED <<history, memory, last_result>>]_vars

\* a line of spaces was reported as an error after a calculation, and the
\* loop is still running with the calculation in the history
C14_Witness ==
    /\ user_input = Blank
    /\ raised = "IndexError"
    /\ printed = "Error: "
    /\ running
    /\ Len(history) = 1

\* C15: in CalculatorGUI the history panel and the engine history stay in
\* step: one line per engine entry, in the same order; a failed calculate
\* adds a line to neither, and clear_history empties both.
C15_PanelFollowsEngineHistory ==
    /\ [](/\ Len(history_text) = Len(history)
          /\ \A i \in 1..Len(history) :
                \E raw \in GuiExprs :
                    /\ history[i][1] = Rewrite(raw, Int_(0), Int_(0))
                    /\ history_text[i] = HistoryLine(raw, history[i][2])
          /\ op.name = "clear_history" =>
                history_text = <<>> /\ history = <<>>)
    /\ [][(op'.name = "evaluate" /\ ~op'.ok) =>
             UNCHANGED <<history_text, history>>]_vars

\* two different calculations are in the panel and the last calculate failed
C15_Witness ==
    /\ Len(history_text) = 2
    /\ history_text[1] # history_text[2]
    /\ op.name = "evaluate" /\ ~op.ok
    /\ result_var = ErrorText

\* the task has the status and the priority asked for (None asks for any)
Matches(task, status, priority) ==
    /\ status = None \/ task.status = status
    /\ priority = None \/ task.priority = priority

\* C16: TaskManager.list_tasks is a pure query: for every status filter,
\* priority filter and sort_by, also with no filter, the stored task list is
\* the same after the call, in the same order, and the returned list holds
\* exactly the stored tasks that match the filters, sorted by the key.
C16_ListTasksIsPure ==
    [][op'.name = "list_tasks" =>
          /\ tasks' = tasks
          /\ \A i \in 1..Len(tasks) :
                Matches(tasks[i], op'.arg.status, op'.arg.priority)
                    <=> \E j \in 1..Len(op'.view) : op'.view[j] = tasks[i]
          /\ \A j \in 1..Len(op'.view) :
                \E i \in 1..Len(tasks) : op'.view[j] = tasks[i]
          /\ \A j \in 1..Len(op'.view), k \in 1..Len(op'.view) :
                j < k =>
                    /\ op'.view[j] # op'.view[k]
                    /\ SortKey(op'.arg.sort_by, op'.view[j])
                          <= SortKey(op'.arg.sort_by, op'.view[k])]_vars

====
